---- MODULE Spec2Model ----
(***************************************************************************)
(* A model of the oxiderr crate: ErrorKind (src/src/kind.rs), the AsError  *)
(* trait and the canonical Error with its conversions (src/src/error.rs),  *)
(* and the concrete error types of the crate documentation and tests       *)
(* (src/src/lib.rs).                                                       *)
(*                                                                         *)
(* Rust values are modelled as follows.                                    *)
(*   Option<T>            None is <<>>, Some(x) is <<x>>                   *)
(*   String / &'static str  a TLA+ string                                  *)
(*   ErrorKind            the tuple struct, a 4-tuple                      *)
(*   BTreeMap<String, V>  a function from its keys to its values           *)
(*   serde_value::Value   a record [t |-> variant, v |-> payload]          *)
(* A slot of the program (val, error) that holds nothing, or whose value   *)
(* was moved out, is None.                                                 *)
(***************************************************************************)
EXTENDS Integers, Sequences, FiniteSets, TLC

VARIABLES
    val,    \* the concrete error value being built (a type implementing AsError)
    built,  \* how the live value was made: its type, constructor and builder calls
    error,  \* the canonical Error
    wraps,  \* how many times the live error was wrapped by convert
    out     \* the last call made: its name, its argument and its result

vars == <<val, built, error, wraps, out>>

-----------------------------------------------------------------------------
(* Option *)

None == <<>>

Some(x) == <<x>>

unwrap_or_default(o) == IF o = None THEN <<>> ELSE o[1]

-----------------------------------------------------------------------------
(* kind.rs: ErrorKind *)

U16Max == 65535

ErrorKind(n, m, c, d) == <<n, m, c, d>>

name(k) == k[1]

message_id(k) == k[2]

code(k) == k[3]

description(k) == k[4]

side_boundary_at_500(k) == IF code(k) \in 0..500 THEN "Client" ELSE "Server"

side(k) == IF code(k) \in 0..499 THEN "Client" ELSE "Server"

-----------------------------------------------------------------------------
(* The kinds and the concrete error types the crate's tests and documentation *)
(* define, and the values they are used with.                                 *)

TEST_ERROR == ErrorKind("TestError", "TEST-00001", 500, "Test error message")

NotFound == ErrorKind("NotFound", "MSG001", 404, "Not Found")

IoError == ErrorKind("IoError", "Err-00001", 400, "IO error")

IoFailure == ErrorKind("IoError", "Err-00001", 500, "I/O failure")

Kinds == {TEST_ERROR, NotFound, IoError, IoFailure}

MyError == [name |-> "MyError", kind |-> TEST_ERROR]

ReadFailed == [name |-> "ReadFailed", kind |-> IoFailure]

FileNotExists == [name |-> "FileNotExists", kind |-> IoError]

Types == {MyError, ReadFailed, FileNotExists}

String(s) == [t |-> "String", v |-> s]

Map(m) == [t |-> "Map", v |-> m]

Opt(o) == [t |-> "Option", v |-> o]

FooDetails == [k \in {"foo"} |-> String("foo")]

PathDetails == [k \in {"path"} |-> String("/tmp/x")]

OriginDetails == [k \in {"foo", "origin"} |-> String(k)]

DetailMaps == {FooDetails, PathDetails, OriginDetails}

Messages == {"Test error", "disk full"}

LiteralMessages == {"Not Found", "disk full"}

KindTexts == {<<"NotFound", "MSG001", "Not Found">>,
              <<"TestError", "TEST-00001", "Test error message">>}

Classes == {"Client::NotFound::MyError", "Server::TestError::MyError"}

IoFailures == {"No such file or directory (os error 2)",
               "Permission denied (os error 13)"}

MaxCalls == 3

MaxWraps == 2

-----------------------------------------------------------------------------
(* lib.rs: a concrete error type T over T.kind *)

new(T) ==
    [T       |-> T,
     class   |-> side(T.kind) \o "::" \o name(T.kind) \o "::" \o T.name,
     message |-> description(T.kind),
     details |-> None]

set_message_resets_details(self, message) ==
    [self EXCEPT !.message = message, !.details = None]

set_message(self, message) == [self EXCEPT !.message = message]

set_details(self, details) == [self EXCEPT !.details = Some(details)]

AsError_kind(T) == T.kind

AsError_class(self) == self.class

AsError_message(self) == self.message

AsError_details(self) == self.details

-----------------------------------------------------------------------------
(* error.rs: Error *)

ErrorDerives == {"Debug", "Clone", "Serialize"}

Error(k, c, m, d) == [kind |-> k, class |-> c, message |-> m, details |-> d]

From_drops_details(value) ==
    Error(AsError_kind(value.T), AsError_class(value),
          AsError_message(value), None)

From(value) ==
    Error(AsError_kind(value.T), AsError_class(value),
          AsError_message(value), AsError_details(value))

Digit(d) ==
    CASE d = 0 -> "0" [] d = 1 -> "1" [] d = 2 -> "2" [] d = 3 -> "3"
      [] d = 4 -> "4" [] d = 5 -> "5" [] d = 6 -> "6" [] d = 7 -> "7"
      [] d = 8 -> "8" [] d = 9 -> "9"

RECURSIVE Decimal(_)
Decimal(n) == IF n < 10 THEN Digit(n) ELSE Decimal(n \div 10) \o Digit(n % 10)

Display_by_name(self) ==
    "[" \o name(self.kind) \o "] " \o self.class
        \o " (" \o Decimal(code(self.kind)) \o ") - " \o self.message

Display_colon(self) ==
    "[" \o message_id(self.kind) \o "] " \o self.class
        \o " (" \o Decimal(code(self.kind)) \o "): " \o self.message

Display(self) ==
    "[" \o message_id(self.kind) \o "] " \o self.class
        \o " (" \o Decimal(code(self.kind)) \o ") - " \o self.message

io_Error_other(e) == [kind |-> "Other", error |-> Display(e)]

io_Error(e) == [kind |-> "InvalidData", error |-> Display(e)]

default_bad_request ==
    Error(ErrorKind("InternalServerError", "MSG000", 400,
                    "Internal Server Error"),
          "Server::InternalServerError::Error",
          "Internal Server Error",
          None)

default == Error(ErrorKind("InternalServerError", "MSG000", 500,
                           "Internal Server Error"),
                 "Server::InternalServerError::Error",
                 "Internal Server Error",
                 None)

SerializeDetails(d) == IF d = None THEN Opt(None) ELSE Opt(Some(Map(d[1])))

Serialize_with_kind(self) ==
    [name   |-> "Error",
     fields |-> << <<"kind", String(name(self.kind))>>,
                   <<"class", String(self.class)>>,
                   <<"message", String(self.message)>>,
                   <<"details", SerializeDetails(self.details)>> >>]

Serialize_null_details(self) ==
    [name   |-> "Error",
     fields |-> << <<"class", String(self.class)>>,
                   <<"message", String(self.message)>>,
                   <<"details", Opt(None)>> >>]

Serialize(self) ==
    [name   |-> "Error",
     fields |-> << <<"class", String(self.class)>>,
                   <<"message", String(self.message)>>,
                   <<"details", SerializeDetails(self.details)>> >>]

-----------------------------------------------------------------------------
(* lib.rs: convert, and the usage example *)

to_value(e) ==
    LET s == Serialize(e)
        keys == {s.fields[i][1] : i \in 1..Len(s.fields)}
    IN  Map([k \in keys |->
              LET i == CHOOSE j \in 1..Len(s.fields) : s.fields[j][1] = k
              IN  s.fields[i][2]])

insert_if_absent(m, key, value) ==
    [k \in DOMAIN m \cup {key} |-> IF k \in DOMAIN m THEN m[k] ELSE value]

insert(m, key, value) ==
    [k \in DOMAIN m \cup {key} |-> IF k = key THEN value ELSE m[k]]

convert(T, e) ==
    LET err_clone == [e EXCEPT !.details = None]
        details   == insert(unwrap_or_default(e.details), "origin",
                            to_value(err_clone))
    IN  [T       |-> T,
         class   |-> side(T.kind) \o "::" \o name(T.kind) \o "::" \o T.name,
         message |-> description(T.kind),
         details |-> Some(details)]

try_open_file(io_err) ==
    LET err == default
    IN  [err EXCEPT !.message = Display(err)]

main(io_err) == Display(try_open_file(io_err))

-----------------------------------------------------------------------------
(* The program: one error value at a time is built, converted and rendered. *)
(* Every action is one call; out records it.                                *)

Call(op, arg, res) == Some([op |-> op, arg |-> arg, res |-> res])

Built(T, ctor, calls) == Some([T |-> T, ctor |-> ctor, calls |-> calls])

Init ==
    /\ val = None
    /\ built = None
    /\ error = None
    /\ wraps = 0
    /\ out = None

New ==
    /\ val = None /\ error = None
    /\ \E T \in Types :
         /\ val' = Some(new(T))
         /\ built' = Built(T, "new", <<>>)
         /\ out' = Call("new", T, new(T))
    /\ wraps' = 0
    /\ UNCHANGED error

SetMessage ==
    /\ val # None
    /\ Len(built[1].calls) < MaxCalls
    /\ \E m \in Messages :
         /\ val' = Some(set_message(val[1], m))
         /\ built' = Built(built[1].T, built[1].ctor,
                           Append(built[1].calls, <<"set_message", m>>))
         /\ out' = Call("set_message", [self |-> val[1], message |-> m],
                        set_message(val[1], m))
    /\ UNCHANGED <<error, wraps>>

SetDetails ==
    /\ val # None
    /\ Len(built[1].calls) < MaxCalls
    /\ \E d \in DetailMaps :
         /\ val' = Some(set_details(val[1], d))
         /\ built' = Built(built[1].T, built[1].ctor,
                           Append(built[1].calls, <<"set_details", d>>))
         /\ out' = Call("set_details", [self |-> val[1], details |-> d],
                        set_details(val[1], d))
    /\ UNCHANGED <<error, wraps>>

Convert ==
    /\ val = None /\ error # None
    /\ wraps < MaxWraps
    /\ \E T \in Types :
         /\ val' = Some(convert(T, error[1]))
         /\ built' = Built(T, "convert", <<>>)
         /\ out' = Call("convert", [T |-> T, error |-> error[1]],
                        convert(T, error[1]))
    /\ error' = None
    /\ wraps' = wraps + 1

Into ==
    /\ val # None
    /\ error' = Some(From(val[1]))
    /\ out' = Call("from", val[1], From(val[1]))
    /\ val' = None
    /\ UNCHANGED <<built, wraps>>

Literal ==
    /\ val = None /\ error = None
    /\ \E k \in Kinds, c \in Classes, m \in LiteralMessages,
          d \in {None} \cup {Some(x) : x \in DetailMaps} :
         /\ error' = Some(Error(k, c, m, d))
         /\ out' = Call("Error", None, Error(k, c, m, d))
    /\ built' = None
    /\ wraps' = 0
    /\ UNCHANGED val

Default ==
    /\ val = None /\ error = None
    /\ error' = Some(default)
    /\ out' = Call("default", None, default)
    /\ built' = None
    /\ wraps' = 0
    /\ UNCHANGED val

TryOpenFile ==
    /\ val = None /\ error = None
    /\ \E io_err \in IoFailures :
         /\ error' = Some(try_open_file(io_err))
         /\ out' = Call("try_open_file", io_err, try_open_file(io_err))
    /\ built' = None
    /\ wraps' = 0
    /\ UNCHANGED val

Main ==
    /\ val = None /\ error = None
    /\ \E io_err \in IoFailures :
         out' = Call("main", io_err, main(io_err))
    /\ UNCHANGED <<val, built, error, wraps>>

Fmt ==
    /\ error # None
    /\ out' = Call("display", error[1], Display(error[1]))
    /\ UNCHANGED <<val, built, error, wraps>>

Ser ==
    /\ error # None
    /\ out' = Call("serialize", error[1], Serialize(error[1]))
    /\ UNCHANGED <<val, built, error, wraps>>

IntoIo ==
    /\ error # None
    /\ out' = Call("io", error[1], io_Error(error[1]))
    /\ error' = None
    /\ built' = None
    /\ wraps' = 0
    /\ UNCHANGED val

Next ==
    \/ New \/ SetMessage \/ SetDetails \/ Convert \/ Into
    \/ Literal \/ Default \/ TryOpenFile \/ Main
    \/ Fmt \/ Ser \/ IntoIo

Spec == Init /\ [][Next]_vars

-----------------------------------------------------------------------------
(* ErrorKind on its own: a kind constant with any u16 code is defined, and  *)
(* side() is called on it.                                                  *)

InitKind ==
    /\ val = None
    /\ built = None
    /\ error = None
    /\ wraps = 0
    /\ \E t \in KindTexts, c \in 0..U16Max :
         out = Call("ErrorKind", None, ErrorKind(t[1], t[2], c, t[3]))

Side ==
    /\ out # None
    /\ out[1].op = "ErrorKind"
    /\ out' = Call("side", out[1].res, side(out[1].res))
    /\ UNCHANGED <<val, built, error, wraps>>

NextKind == Side

SpecKind == InitKind /\ [][NextKind]_vars

-----------------------------------------------------------------------------
(* Properties *)

Made(op) == out # None /\ out[1].op = op

NotFoundExample ==
    Error(<<"NotFound", "MSG001", 404, "Not Found">>,
          "Client::NotFound::MyError", "Not Found", None)

\* The fields of an ErrorKind that no serialized Error may carry.
KindFields == {"kind", "name", "message_id", "code", "description"}

\* C1: converting a value v of a type E implementing AsError into Error gives
\* kind = E::kind(), class = v.class(), message = v.message() and
\* details = v.details(), unchanged, and the conversion is possible for every
\* value.
C1_FromKeepsFields ==
    /\ Made("from") =>
         LET v == out[1].arg
             e == out[1].res
         IN  /\ DOMAIN e = {"kind", "class", "message", "details"}
             /\ e.kind = v.T.kind
             /\ e.class = v.class
             /\ e.message = v.message
             /\ e.details = v.details
             /\ error = Some(e)
    /\ val # None => ENABLED Into

C1_Witness ==
    /\ Made("from")
    /\ out[1].arg.details # None
    /\ out[1].arg.message = "disk full"
    /\ out[1].res.kind = IoFailure

\* C2: the Display rendering of an Error is
\* "[" message_id "] " class " (" decimal code ") - " message, and the NotFound
\* example renders as "[MSG001] Client::NotFound::MyError (404) - Not Found".
C2_DisplayFormat ==
    Made("display") =>
        LET e == out[1].arg
        IN  /\ out[1].res = "[" \o e.kind[2] \o "] " \o e.class \o " ("
                                \o ToString(e.kind[3]) \o ") - " \o e.message
            /\ e = NotFoundExample =>
                 out[1].res = "[MSG001] Client::NotFound::MyError (404) - Not Found"

C2_Witness ==
    /\ Made("display")
    /\ out[1].arg = NotFoundExample
    /\ out[1].res = "[MSG001] Client::NotFound::MyError (404) - Not Found"

\* C3: side() is defined for every u16 code, is "Client" for 0..499 and
\* "Server" for 500..65535, and does not depend on name, message_id or
\* description.
C3_SideByCode ==
    Made("side") =>
        LET k == out[1].arg
            c == k[3]
        IN  /\ c \in 0..65535
            /\ c <= 499 => out[1].res = "Client"
            /\ c >= 500 => out[1].res = "Server"
            /\ \A t \in KindTexts : side(<<t[1], t[2], c, t[3]>>) = out[1].res

C3_Witness ==
    /\ Made("side")
    /\ out[1].arg[3] = 499
    /\ out[1].res = "Client"

\* C4: Error::default() is the InternalServerError value: kind
\* ("InternalServerError", "MSG000", 500, "Internal Server Error"), class
\* "Server::InternalServerError::Error", message "Internal Server Error", no
\* details; the class prefix is kind.side() and the message kind.description().
C4_DefaultValue ==
    Made("default") =>
        LET e == out[1].res
        IN  /\ e.kind = <<"InternalServerError", "MSG000", 500,
                          "Internal Server Error">>
            /\ e.class = "Server::InternalServerError::Error"
            /\ e.message = "Internal Server Error"
            /\ e.details = None
            /\ e.class = side(e.kind) \o "::" \o e.kind[1] \o "::Error"
            /\ e.message = e.kind[4]
            /\ error = Some(e)

C4_Witness ==
    /\ Made("default")
    /\ error = Some(out[1].res)
    /\ out[1].res.kind[3] = 500

\* C5: converting an Error into std::io::Error always succeeds and gives an
\* error of kind InvalidData whose text is the Display rendering of the Error.
C5_IoErrorInvalidData ==
    /\ Made("io") =>
         /\ DOMAIN out[1].res = {"kind", "error"}
         /\ out[1].res.kind = "InvalidData"
         /\ out[1].res.error = Display(out[1].arg)
    /\ error # None => ENABLED IntoIo

C5_Witness ==
    /\ Made("io")
    /\ out[1].arg.details # None
    /\ out[1].res.error = "[Err-00001] Server::IoError::ReadFailed (500) - disk full"

\* C6: the serialized Error is a record of exactly the fields class, message
\* and details, in that order, holding the Error's class, message and details
\* (null when there are none); nothing of kind is in it, so Errors that differ
\* only in kind serialize identically.
C6_SerializedShape ==
    Made("serialize") =>
        LET e == out[1].arg
            f == out[1].res.fields
        IN  /\ Len(f) = 3
            /\ <<f[1][1], f[2][1], f[3][1]>> = <<"class", "message", "details">>
            /\ f[1][2] = [t |-> "String", v |-> e.class]
            /\ f[2][2] = [t |-> "String", v |-> e.message]
            /\ f[3][2].t = "Option"
            /\ IF e.details = None
                 THEN f[3][2].v = <<>>
                 ELSE /\ Len(f[3][2].v) = 1
                      /\ f[3][2].v[1].t = "Map"
                      /\ DOMAIN f[3][2].v[1].v = DOMAIN e.details[1]
                      /\ \A k \in DOMAIN e.details[1] :
                           f[3][2].v[1].v[k] = e.details[1][k]
            /\ \A i \in 1..Len(f) : f[i][1] \notin KindFields
            /\ \A k \in Kinds : Serialize([e EXCEPT !.kind = k]) = out[1].res

C6_Witness ==
    /\ Made("serialize")
    /\ out[1].arg.details # None
    /\ out[1].arg.kind = NotFound

\* The value of the field named n in a serialized record.
Field(ser, n) ==
    ser.fields[CHOOSE i \in 1..Len(ser.fields) : ser.fields[i][1] = n][2]

\* C7 (as the claim states it): an Error that was serialized can be
\* deserialized back by the library, Error implementing deserialization.
C7_ErrorDeserializes ==
    Made("serialize") => "Deserialize" \in ErrorDerives

\* C7 (amended): Error implements serialization only, there is no
\* deserialization of Error in the library; class, message and details can be
\* read back unchanged from the serialized record, field by field, and kind
\* cannot: an Error of another kind has the same serialized record.
C7_SerializeOnly ==
    /\ "Serialize" \in ErrorDerives
    /\ "Deserialize" \notin ErrorDerives
    /\ Made("serialize") =>
         LET e == out[1].arg
             s == out[1].res
         IN  /\ Field(s, "class").v = e.class
             /\ Field(s, "message").v = e.message
             /\ IF Field(s, "details").v = <<>>
                  THEN e.details = None
                  ELSE e.details = Some(Field(s, "details").v[1].v)
             /\ \E k \in Kinds :
                  /\ k # e.kind
                  /\ Serialize([e EXCEPT !.kind = k]) = s

C7_Witness ==
    /\ Made("serialize")
    /\ out[1].arg.details = Some(OriginDetails)
    /\ Field(out[1].res, "message").v = "Not Found"

\* The argument of the last call named op among calls, or otherwise.
RECURSIVE LastArg(_, _, _)
LastArg(calls, op, otherwise) ==
    IF calls = <<>> THEN otherwise
    ELSE IF calls[Len(calls)][1] = op THEN calls[Len(calls)][2]
    ELSE LastArg(SubSeq(calls, 1, Len(calls) - 1), op, otherwise)

SideOfCode(c) == IF c < 500 THEN "Client" ELSE "Server"

\* C8: a value of type T over kind K made by new() and changed by any
\* sequence of set_message and set_details calls still has kind K and class
\* "<side>::<K name>::<T>", has the message of the last set_message (K's
\* description if none) and the details of the last set_details (None if
\* none); set_message changes neither class nor details, set_details neither
\* class nor message; converted to Error and displayed it reads
\* "[<K message_id>] <side>::<K name>::<T> (<K code>) - <message>".
C8_BuilderKeepsClass ==
    /\ (val # None /\ built[1].ctor = "new") =>
         LET v == val[1]
             T == built[1].T
             K == T.kind
         IN  /\ v.T = T
             /\ From(v).kind = K
             /\ v.class = SideOfCode(K[3]) \o "::" \o K[1] \o "::" \o T.name
             /\ v.message = LastArg(built[1].calls, "set_message", K[4])
             /\ IF \E i \in 1..Len(built[1].calls) :
                       built[1].calls[i][1] = "set_details"
                  THEN v.details =
                         Some(LastArg(built[1].calls, "set_details", <<>>))
                  ELSE v.details = None
    /\ Made("set_message") =>
         /\ out[1].res.message = out[1].arg.message
         /\ out[1].res.class = out[1].arg.self.class
         /\ out[1].res.details = out[1].arg.self.details
         /\ out[1].res.T = out[1].arg.self.T
    /\ Made("set_details") =>
         /\ out[1].res.details = Some(out[1].arg.details)
         /\ out[1].res.class = out[1].arg.self.class
         /\ out[1].res.message = out[1].arg.self.message
         /\ out[1].res.T = out[1].arg.self.T
    /\ (/\ Made("display") /\ error # None /\ built # None
        /\ built[1].ctor = "new" /\ out[1].arg = error[1]) =>
            LET T == built[1].T
                K == T.kind
                m == LastArg(built[1].calls, "set_message", K[4])
            IN  /\ out[1].res = "[" \o K[2] \o "] " \o SideOfCode(K[3]) \o "::"
                                    \o K[1] \o "::" \o T.name \o " ("
                                    \o ToString(K[3]) \o ") - " \o m
                /\ (T = ReadFailed /\ m = "disk full") =>
                     out[1].res =
                       "[Err-00001] Server::IoError::ReadFailed (500) - disk full"

C8_Witness ==
    /\ Made("display")
    /\ error # None /\ built # None
    /\ built[1].ctor = "new"
    /\ built[1].calls = << <<"set_message", "disk full">>,
                           <<"set_details", PathDetails>> >>
    /\ out[1].arg = error[1]
    /\ out[1].res = "[Err-00001] Server::IoError::ReadFailed (500) - disk full"

\* C9: T::convert(e) has class "<side>::<K name>::<T>", message K's
\* description and details Some(d), where d maps "origin" to the serialized e
\* without its kind and with its details cleared (class, message, null
\* details), and otherwise holds exactly the entries of e's details; "origin"
\* is the serialized e also when e's details had an "origin" entry, and the
\* result does not depend on e's kind.
C9_ConvertWrapsOrigin ==
    Made("convert") =>
        LET T == out[1].arg.T
            e == out[1].arg.error
            r == out[1].res
            K == T.kind
            old == IF e.details = None THEN <<>> ELSE e.details[1]
        IN  /\ val = Some(r)
            /\ r.class = SideOfCode(K[3]) \o "::" \o K[1] \o "::" \o T.name
            /\ r.message = K[4]
            /\ r.details # None
            /\ LET d == r.details[1]
               IN  /\ DOMAIN d = DOMAIN old \cup {"origin"}
                   /\ d["origin"].t = "Map"
                   /\ DOMAIN d["origin"].v = {"class", "message", "details"}
                   /\ d["origin"].v["class"] = [t |-> "String", v |-> e.class]
                   /\ d["origin"].v["message"] =
                        [t |-> "String", v |-> e.message]
                   /\ d["origin"].v["details"] = [t |-> "Option", v |-> <<>>]
                   /\ \A k \in DOMAIN old \ {"origin"} : d[k] = old[k]
            /\ \A k \in Kinds : convert(T, [e EXCEPT !.kind = k]) = r

C9_Witness ==
    /\ Made("convert")
    /\ out[1].arg.error.details # None
    /\ "origin" \in DOMAIN out[1].arg.error.details[1]
    /\ out[1].arg.error.details[1]["origin"].t = "String"
    /\ out[1].res.details[1]["origin"].t = "Map"

\* C10: the usage example prints, for a File::open failure with text x,
\* "[Err-00001] Client::IoError::NotFoundError (500) - x".
C10_UsageExampleOutput ==
    Made("main") =>
        out[1].res =
          "[Err-00001] Client::IoError::NotFoundError (500) - " \o out[1].arg

\* The Errors that agree with e on kind.message_id, class, kind.code and
\* message, with any name, description and details.
SameRendered(e) ==
    {Error(<<t[1], e.kind[2], e.kind[3], t[3]>>, e.class, e.message, d) :
        t \in KindTexts, d \in {None} \cup {Some(x) : x \in DetailMaps}}

\* C11: the Display text of an Error, and the message of the std::io::Error
\* it converts into, depend only on kind.message_id, class, kind.code and
\* message: every Error agreeing on these four, whatever its details,
\* kind.name and kind.description, gives the same text and the same I/O error
\* message, so details cannot be told from the text.
C11_TextIgnoresDetails ==
    /\ Made("display") =>
         \A e \in SameRendered(out[1].arg) : Display(e) = out[1].res
    /\ Made("io") =>
         /\ \A e \in SameRendered(out[1].arg) :
              io_Error(e).error = out[1].res.error
         /\ \E e \in SameRendered(out[1].arg) :
              /\ e.details # out[1].arg.details
              /\ e.kind[1] # out[1].arg.kind[1]
              /\ e.kind[4] # out[1].arg.kind[4]

C11_Witness ==
    /\ Made("io")
    /\ out[1].arg.kind = IoFailure
    /\ out[1].arg.details = Some(OriginDetails)
    /\ out[1].res.error = "[Err-00001] Server::TestError::MyError (500) - disk full"
    /\ io_Error(Error(TEST_ERROR, "Server::TestError::MyError", "disk full",
                      None)).error # out[1].res.error

====
